---- MODULE Spec2Model ----
(***************************************************************************)
(* Model of the VTC usage-report pipeline (report_generator.py, app.py).   *)
(*                                                                         *)
(* Text is a sequence of character codes, so that trimming, lower-casing,  *)
(* suffix tests and ordering are computed and not assumed.  A DataFrame is *)
(* a sequence of rows; a row is a function from column names to values;    *)
(* its columns are the domain of its rows.  NA stands for None, NaN and    *)
(* NaT alike.                                                              *)
(***************************************************************************)
EXTENDS Integers, Sequences, FiniteSets, TLC

VARIABLES
    pc,            \* where the run is: start, creds, scan_*, filter, build, export, done, failed, stopped
    surface,       \* "cli" (report_generator.main) or "app" (app.py)
    args,          \* start_date, end_date, format, no_date_filter
    env,           \* the three connection parameters and today's date
    trace,         \* the calls the run has issued so far, in order
    accounts_df, usage_df_all, askai_df_all,    \* the three tables as read
    usage_df, askai_df,                         \* the event tables after the date stage
    start_dt, end_dt,
    report_df,     \* the assembled report
    sort_index,    \* the index sort_values leaves, before reset_index(drop=True)
    file_data,     \* the exported buffer, <<>> while there is none
    error,         \* the exception that ended the run, "" while there is none
    scan_pc,       \* where get_data_from_dynamodb is: idle, loop, after_loop, returned
    scan_kwargs,   \* the ExclusiveStartKey of the next request, NA while there is none
    items,         \* the items collected so far
    requests,      \* the start key of every request issued, in order
    responses,     \* every response received, in order
    scan_result    \* the DataFrame the scan returned

scanvars == <<scan_pc, scan_kwargs, items, requests, responses, scan_result>>

vars == <<pc, surface, args, env, trace,
          accounts_df, usage_df_all, askai_df_all, usage_df, askai_df,
          start_dt, end_dt, report_df, sort_index, file_data, error,
          scan_pc, scan_kwargs, items, requests, responses, scan_result>>

\* ------------------------------------------------------------------------
\* Bounds of the model
\* ------------------------------------------------------------------------
MaxRoster == 2
MaxUsage == 2
MaxAskAI == 1
MaxAliased == 1
MaxFewEvents == 1
MaxColumn == 3
MaxRunRows == 1
MaxPages == 3
MaxPageItems == 1

\* ------------------------------------------------------------------------
\* Values and text
\* ------------------------------------------------------------------------
NA == <<-1>>

Min(a, b) == IF a <= b THEN a ELSE b

\* "None", what str(None) gives
NoneStr == <<78, 111, 110, 101>>

\* "@thinkcol.com"
InternalSuffix == <<64, 116, 104, 105, 110, 107, 99, 111, 108, 46, 99, 111, 109>>

\* str.strip() removes these characters (the ASCII whitespace of Python)
Whitespace == {9, 10, 11, 12, 13, 28, 29, 30, 31, 32}

RECURSIVE LStrip(_)
LStrip(s) == IF s # <<>> /\ Head(s) \in Whitespace THEN LStrip(Tail(s)) ELSE s

RECURSIVE RStrip(_)
RStrip(s) ==
    IF s # <<>> /\ s[Len(s)] \in Whitespace THEN RStrip(SubSeq(s, 1, Len(s) - 1)) ELSE s

Strip(s) == RStrip(LStrip(s))

LowerChar(c) == IF c >= 65 /\ c <= 90 THEN c + 32 ELSE c

Lower(s) == [i \in 1..Len(s) |-> LowerChar(s[i])]

EndsWith(s, suffix) ==
    /\ Len(s) >= Len(suffix)
    /\ SubSeq(s, Len(s) - Len(suffix) + 1, Len(s)) = suffix

AsTypeStr(v) == IF v = NA THEN NoneStr ELSE v

\* Mutant: the identity is trimmed but not lower-cased
NormalizeAccount_NoLower(v) == Strip(AsTypeStr(v))

\* .astype(str).str.strip().str.lower()
NormalizeAccount(v) == Lower(Strip(AsTypeStr(v)))

\* a < b for Python str: code point by code point, a proper prefix first
StrLess(a, b) ==
    \E k \in 1..(Min(Len(a), Len(b)) + 1) :
        /\ \A j \in 1..(k - 1) : a[j] = b[j]
        /\ \/ k > Len(a) /\ k <= Len(b)
           \/ k <= Len(a) /\ k <= Len(b) /\ a[k] < b[k]

\* ------------------------------------------------------------------------
\* Configuration
\* ------------------------------------------------------------------------
METRICS_USAGE_TYPE_MAP ==
    << [name |-> "Logins", types |-> {}],
       [name |-> "Uploads", types |-> {}],
       [name |-> "Generated Transcripts", types |-> {"transcript"}],
       [name |-> "Regenerated Transcripts", types |-> {"regenerate transcript"}],
       [name |-> "Initial Summaries", types |-> {"initial summary"}],
       [name |-> "Regenerated Summaries", types |-> {"regenerate summary"}],
       [name |-> "Regenerated Notes", types |-> {"regenerate note"}] >>

TABLE_ACCOUNTS == "oak-account-vtc"
TABLE_USAGE == "oak-usage-log-vtc"
TABLE_ASKAI == "oak-ask-ai-vtc"

ACCOUNT_ALIASES ==
    << "account", "email", "user", "user_id", "userId",
       "user_email", "userEmail", "emailAddress", "user_email_address" >>
USERNAME_ALIASES == << "username", "user_name", "name", "displayName" >>
USAGE_TYPE_ALIASES == << "usage_type", "usageType", "type", "action", "event", "event_type" >>
CREATED_AT_ALIASES ==
    << "createdAt", "created_at", "timestamp", "createdOn",
       "created_at_ms", "created_at_iso" >>

\* ------------------------------------------------------------------------
\* DataFrames
\* ------------------------------------------------------------------------
Columns(df) == IF df = <<>> THEN {} ELSE DOMAIN df[1]

IsEmpty(df) == df = <<>>

\* The row r with column c set to v (added when absent)
WithColumn(r, c, v) == [k \in (DOMAIN r) \cup {c} |-> IF k = c THEN v ELSE r[k]]

\* What _find_first_column returns when no candidate is a column (None)
NoColumn == ""

\* _find_first_column: the first candidate that is a column of df, or None
find_first_column(df, candidates) ==
    LET hits == {i \in 1..Len(candidates) : candidates[i] \in Columns(df)}
    IN  IF hits = {} THEN NoColumn
        ELSE candidates[CHOOSE i \in hits : \A j \in hits : i <= j]

\* ------------------------------------------------------------------------
\* Instants and numbers
\*
\* A number n that pd.to_numeric produced is the pair <<q, r>>, n = 1000 q + r
\* with 0 <= r < 1000, so that 1e12 and epoch-milliseconds are exact.
\* An instant is <<ks, s, us>>: 1000 ks + s seconds and us microseconds after
\* the epoch, 0 <= s < 1000, 0 <= us < 1000000.
\* A raw timestamp value is [num, parsed]: what pd.to_numeric makes of it (NA
\* when it is not numeric) and what pd.to_datetime(utc=True) makes of it when
\* it parses the value itself (NA when it cannot).
\* ------------------------------------------------------------------------
NumLess(a, b) == a[1] < b[1] \/ (a[1] = b[1] /\ a[2] < b[2])

\* 1e12
MsThreshold == <<1000000000, 0>>

InstantLE(a, b) ==
    /\ a # NA
    /\ b # NA
    /\ \/ a[1] < b[1]
       \/ a[1] = b[1] /\ a[2] < b[2]
       \/ a[1] = b[1] /\ a[2] = b[2] /\ a[3] <= b[3]

InstantOfSeconds(n) == <<n \div 1000, n % 1000, 0>>

\* pd.to_datetime(n, unit='s', utc=True, errors='coerce'): seconds after the
\* epoch; past Timestamp.max (9223372036 s) the value is coerced to NaT
FromEpochSeconds(n) ==
    IF n = NA THEN NA
    ELSE IF n[1] > 9223372 \/ (n[1] = 9223372 /\ n[2] > 36) THEN NA
    ELSE <<n[1], n[2], 0>>

\* pd.to_datetime(n, unit='ms', utc=True, errors='coerce')
FromEpochMillis(n) ==
    IF n = NA THEN NA
    ELSE <<n[1] \div 1000, n[1] % 1000, n[2] * 1000>>

\* pd.to_numeric(column, errors='coerce')
ToNumeric(column) == [i \in 1..Len(column) |-> column[i].num]

\* pd.to_datetime(column, utc=True, errors='coerce') on the raw column
ToDatetime(column) == [i \in 1..Len(column) |-> column[i].parsed]

\* Series.max(), which skips NaN
NumMax(nums) ==
    LET ok == {i \in 1..Len(nums) : nums[i] # NA}
    IN  nums[CHOOSE i \in ok : \A j \in ok : ~NumLess(nums[i], nums[j])]

NotNaCount(xs) == Cardinality({i \in 1..Len(xs) : xs[i] # NA})

\* Mutant: half of the values being numeric is enough
MostlyNumeric_AtLeastHalf(nums) == 2 * NotNaCount(nums) >= Len(nums)

\* numeric_timestamps.notna().mean() > 0.5
MostlyNumeric(nums) == 2 * NotNaCount(nums) > Len(nums)

\* The numeric branch picks one unit for the column from its maximum
UnitIsMillis(nums) == NumLess(MsThreshold, NumMax(nums))

CoerceColumn(column) ==
    LET numeric_timestamps == ToNumeric(column)
    IN  IF MostlyNumeric(numeric_timestamps)
        THEN IF UnitIsMillis(numeric_timestamps)
             THEN [i \in 1..Len(column) |-> FromEpochMillis(numeric_timestamps[i])]
             ELSE [i \in 1..Len(column) |-> FromEpochSeconds(numeric_timestamps[i])]
        ELSE ToDatetime(column)

coerce_created_at(df) ==
    IF IsEmpty(df) THEN df
    ELSE LET created_col == find_first_column(df, CREATED_AT_ALIASES)
         IN  IF created_col = NoColumn THEN df
             ELSE LET coerced == CoerceColumn([i \in 1..Len(df) |-> df[i][created_col]])
                  IN  [i \in 1..Len(df) |-> WithColumn(df[i], "createdAt_dt", coerced[i])]

\* Mutant: the end of the window is exclusive
InRange_EndExclusive(t, start, end) == InstantLE(start, t) /\ InstantLE(t, end) /\ t # end

InRange(t, start, end) == InstantLE(start, t) /\ InstantLE(t, end)

filter_by_date(df, start, end) ==
    IF IsEmpty(df) THEN df
    ELSE LET d == IF "createdAt_dt" \notin Columns(df) THEN coerce_created_at(df) ELSE df
         IN  IF \/ "createdAt_dt" \notin Columns(d)
                \/ \A i \in 1..Len(d) : d[i]["createdAt_dt"] = NA
             THEN <<>>
             ELSE SelectSeq(d, LAMBDA r : InRange(r["createdAt_dt"], start, end))

\* A calendar date is <<d>>, d its day number after the epoch; NA is no date.
\* start is its midnight, end is 23:59:59 of the end date (date + 1 day -
\* 1 second).
SecondsPerDay == 86400

StartOfDay(d) == InstantOfSeconds(d * SecondsPerDay)

EndOfDay(d) == InstantOfSeconds(d * SecondsPerDay + SecondsPerDay - 1)

\* resolve_date_range: absent dates default to today and to 29 days earlier
resolve_date_range(start_date, end_date, today) ==
    LET end_day == IF end_date # NA THEN end_date[1] ELSE today[1]
    IN  << IF start_date # NA THEN StartOfDay(start_date[1]) ELSE StartOfDay(end_day - 29),
           EndOfDay(end_day) >>

\* ------------------------------------------------------------------------
\* Per-account aggregation.  A grouped result is a function from the
\* normalized account to its count (one entry per account that has events).
\* ------------------------------------------------------------------------
EmptyGrouped == [a \in {} |-> 0]

GroupSize(keys, members) ==
    [a \in {keys[i] : i \in members} |-> Cardinality({i \in members : keys[i] = a})]

\* Mutant: the events are not restricted to the accepted usage types
count_usage_by_account_AnyType(df, usage_types) ==
    IF IsEmpty(df) \/ usage_types = {} THEN EmptyGrouped
    ELSE LET account_col == find_first_column(df, ACCOUNT_ALIASES)
             usage_type_col == find_first_column(df, USAGE_TYPE_ALIASES)
         IN  IF account_col = NoColumn \/ usage_type_col = NoColumn THEN EmptyGrouped
             ELSE LET norm == [i \in 1..Len(df) |-> NormalizeAccount(df[i][account_col])]
                  IN  GroupSize(norm, 1..Len(df))

count_usage_by_account(df, usage_types) ==
    IF IsEmpty(df) \/ usage_types = {} THEN EmptyGrouped
    ELSE LET account_col == find_first_column(df, ACCOUNT_ALIASES)
             usage_type_col == find_first_column(df, USAGE_TYPE_ALIASES)
         IN  IF account_col = NoColumn \/ usage_type_col = NoColumn THEN EmptyGrouped
             ELSE LET norm == [i \in 1..Len(df) |-> NormalizeAccount(df[i][account_col])]
                      subset == {i \in 1..Len(df) : df[i][usage_type_col] \in usage_types}
                  IN  GroupSize(norm, subset)

count_askai_by_account(df) ==
    IF IsEmpty(df) THEN EmptyGrouped
    ELSE LET account_col == find_first_column(df, ACCOUNT_ALIASES)
         IN  IF account_col = NoColumn THEN EmptyGrouped
             ELSE LET norm == [i \in 1..Len(df) |-> NormalizeAccount(df[i][account_col])]
                  IN  GroupSize(norm, 1..Len(df))

\* ------------------------------------------------------------------------
\* Report assembly
\* ------------------------------------------------------------------------
MetricColumns ==
    << "Logins", "Uploads", "Generated Transcripts", "Regenerated Transcripts",
       "Initial Summaries", "Regenerated Summaries", "Regenerated Notes",
       "AskAI Questions" >>

ReportColumns == << "Account", "Username" >> \o MetricColumns

Range(seq) == {seq[i] : i \in 1..Len(seq)}

\* Lines 213-226: rename the resolved columns, default the missing ones to
\* None, normalize the identity, drop the internal accounts, keep two columns
IsInternal(account) == EndsWith(account, InternalSuffix)

BaseRows(df) ==
    LET acct_col == find_first_column(df, ACCOUNT_ALIASES)
        user_col == find_first_column(df, USERNAME_ALIASES)
        base == [i \in 1..Len(df) |->
                    [Account |-> NormalizeAccount(IF acct_col = NoColumn THEN NA
                                                  ELSE df[i][acct_col]),
                     Username |-> IF user_col = NoColumn THEN NA ELSE df[i][user_col]]]
    IN  SelectSeq(base, LAMBDA r : ~IsInternal(r.Account))

RECURSIVE SeqOfSet(_)
SeqOfSet(S) ==
    IF S = {} THEN <<>>
    ELSE LET x == CHOOSE y \in S : TRUE IN <<x>> \o SeqOfSet(S \ {x})

\* Mutant: an outer join, which adds a row for every account that only the
\* events know
LeftMerge_Outer(report, grouped, name) ==
    LET cols == {"Account", "Username", name} \cup Columns(report)
        known == {report[i]["Account"] : i \in 1..Len(report)}
        extra == SeqOfSet((DOMAIN grouped) \ known)
    IN  [i \in 1..Len(report) |->
            WithColumn(report[i], name,
                       IF report[i]["Account"] \in DOMAIN grouped
                       THEN <<grouped[report[i]["Account"]]>>
                       ELSE NA)]
        \o [j \in 1..Len(extra) |->
              [c \in cols |-> IF c = "Account" THEN extra[j]
                              ELSE IF c = name THEN <<grouped[extra[j]]>>
                              ELSE NA]]

\* report.merge(grouped, on="Account", how="left"): the count as a float
\* <<n>>, NaN where the account has no entry
LeftMerge(report, grouped, name) ==
    [i \in 1..Len(report) |->
        WithColumn(report[i], name,
                   IF report[i]["Account"] \in DOMAIN grouped
                   THEN <<grouped[report[i]["Account"]]>>
                   ELSE NA)]

RECURSIVE MergeMetrics(_, _, _)
MergeMetrics(report, df, k) ==
    IF k > Len(METRICS_USAGE_TYPE_MAP) THEN report
    ELSE MergeMetrics(
            LeftMerge(report,
                      count_usage_by_account(df, METRICS_USAGE_TYPE_MAP[k].types),
                      METRICS_USAGE_TYPE_MAP[k].name),
            df, k + 1)

\* .fillna(0).astype(int)
FillNaAsInt(v) == IF v = NA THEN 0 ELSE v[1]

FillColumns(report) ==
    [i \in 1..Len(report) |->
        [c \in (DOMAIN report[i]) \cup Range(MetricColumns) |->
            IF c \in Range(MetricColumns)
            THEN (IF c \in DOMAIN report[i] THEN FillNaAsInt(report[i][c]) ELSE 0)
            ELSE report[i][c]]]

\* Mutant: null usernames sort first
RowLess_NullsFirst(r1, r2) ==
    LET u1 == r1["Username"]
        u2 == r2["Username"]
    IN  IF u1 = NA /\ u2 = NA THEN StrLess(r1["Account"], r2["Account"])
        ELSE IF u1 = NA THEN TRUE
        ELSE IF u2 = NA THEN FALSE
        ELSE StrLess(u1, u2) \/ (u1 = u2 /\ StrLess(r1["Account"], r2["Account"]))

\* The order of sort_values(by=["Username", "Account"], na_position="last")
RowLess(r1, r2) ==
    LET u1 == r1["Username"]
        u2 == r2["Username"]
    IN  IF u1 = NA /\ u2 = NA THEN StrLess(r1["Account"], r2["Account"])
        ELSE IF u1 = NA THEN FALSE
        ELSE IF u2 = NA THEN TRUE
        ELSE StrLess(u1, u2) \/ (u1 = u2 /\ StrLess(r1["Account"], r2["Account"]))

\* The order of sort_values(by=["Account"])
AccountLess(r1, r2) == StrLess(r1["Account"], r2["Account"])

SortLess(report, r1, r2) ==
    IF "Username" \in Columns(report) THEN RowLess(r1, r2) ELSE AccountLess(r1, r2)

\* A stable sort: row i goes before the first row already placed that is
\* greater than it, so rows that compare equal keep their order
InsertStable(idx, i, report) ==
    LET later == {p \in 1..Len(idx) : SortLess(report, report[i], report[idx[p]])}
        pos == IF later = {} THEN Len(idx) + 1
               ELSE CHOOSE p \in later : \A q \in later : p <= q
    IN  SubSeq(idx, 1, pos - 1) \o <<i>> \o SubSeq(idx, pos, Len(idx))

RECURSIVE SortIndexer(_, _)
SortIndexer(report, n) ==
    IF n = 0 THEN <<>> ELSE InsertStable(SortIndexer(report, n - 1), n, report)

\* Lines 226-240: the report before it is sorted
MergedReport(accounts, usage, askai) ==
    FillColumns(
        LeftMerge(MergeMetrics(BaseRows(accounts), usage, 1),
                  count_askai_by_account(askai), "AskAI Questions"))

\* The index after sort_values: position k holds the row that was at
\* sorted_index[k] of the unsorted report
sorted_index(accounts, usage, askai) ==
    IF IsEmpty(accounts) THEN <<>>
    ELSE LET report == MergedReport(accounts, usage, askai)
         IN  SortIndexer(report, Len(report))

build_report_dataframe(accounts, usage, askai) ==
    IF IsEmpty(accounts) THEN <<>>
    ELSE LET report == MergedReport(accounts, usage, askai)
             idx == SortIndexer(report, Len(report))
         IN  [k \in 1..Len(idx) |-> [c \in Range(ReportColumns) |-> report[idx[k]][c]]]

\* ------------------------------------------------------------------------
\* Credentials and exporters
\* ------------------------------------------------------------------------
\* "not v" for an environment value: unset (None) or the empty string
Falsy(v) == v = NA \/ v = <<>>

\* Mutant: the region is not checked
CredentialsMissing_NoRegion(e) == Falsy(e.access_key) \/ Falsy(e.secret_key)

\* load_env_credentials raises RuntimeError when this holds
CredentialsMissing(e) == Falsy(e.access_key) \/ Falsy(e.secret_key) \/ Falsy(e.region)

\* The parameters the exporters declare
export_excel_params == << "df" >>
export_docx_params == << "df", "start_dt", "end_dt" >>

\* export_excel: one sheet, a row per report row
export_excel(df) == << "xlsx", df >>

\* export_docx: the caption with the date range, then str(value) per cell,
\* "" for a null
export_docx(df, start, end) ==
    << "docx", <<start, end>>,
       [i \in 1..Len(df) |->
           [c \in DOMAIN df[i] |->
               IF c = "Username" /\ df[i][c] = NA THEN <<>> ELSE df[i][c]]] >>

\* main's output_path: args.output or the name made of the date range
output_path(fmt, start, end) == << "vtc_report", start, end, fmt >>

\* The positional arguments each call site passes to the exporter
ExportArgs(s, fmt, df, start, end) ==
    IF s = "cli"
    THEN IF fmt = "excel"
         THEN << df, output_path(fmt, start, end) >>
         ELSE << df, output_path(fmt, start, end), start, end >>
    ELSE IF fmt = "excel"
         THEN << df >>
         ELSE << df, start, end >>

ExportParams(fmt) == IF fmt = "excel" THEN export_excel_params ELSE export_docx_params

\* Python binds positional arguments one to one and raises TypeError otherwise
CallBinds(params, argv) == Len(argv) = Len(params)

\* ------------------------------------------------------------------------
\* Inputs
\* ------------------------------------------------------------------------
SeqsUpTo(S, n) == UNION {[1..k -> S] : k \in 0..n}

\* "a@x.com", " A@X.com ", "b@x.com", "Admin@ThinkCol.com"
Acct_a == <<97, 64, 120, 46, 99, 111, 109>>
Acct_A_padded == <<32, 65, 64, 88, 46, 99, 111, 109, 32>>
Acct_b == <<98, 64, 120, 46, 99, 111, 109>>
Acct_staff == <<65, 100, 109, 105, 110, 64, 84, 104, 105, 110, 107, 67, 111, 108,
                46, 99, 111, 109>>

\* "Al", "Bo"
Name_Al == <<65, 108>>
Name_Bo == <<66, 111>>

RosterIds == {Acct_a, Acct_A_padded, Acct_b, Acct_staff}
Usernames == {NA, Name_Al, Name_Bo}
EventIds == {Acct_A_padded, Acct_b, Acct_staff}
UsageTypes == {"transcript", "regenerate note", "Transcript"}

\* The frames of S whose rows differ pairwise in column c: a table holds one
\* item per stored identity
DistinctOn(S, c) ==
    {df \in S : \A i, j \in 1..Len(df) : df[i][c] = df[j][c] => i = j}

\* Rosters: with both fields, under an alias and without a username field,
\* and without any account field
RosterFrames ==
    DistinctOn(SeqsUpTo([account : RosterIds, username : Usernames], MaxRoster), "account")
    \cup DistinctOn(SeqsUpTo([email : RosterIds], MaxRoster), "email")
    \cup SeqsUpTo([displayName : {Name_Al, Name_Bo}], MaxRoster)

\* Usage events after the date stage: under the first names, under aliases,
\* and without a usage-type field
UsageFrames ==
    SeqsUpTo([account : EventIds \ {Acct_staff}, usage_type : UsageTypes], MaxUsage)
    \cup SeqsUpTo([user_id : EventIds, action : UsageTypes], MaxAliased)
    \cup SeqsUpTo([account : EventIds], MaxAliased)

AskAIFrames ==
    SeqsUpTo([account : EventIds \ {Acct_b}], MaxAskAI)
    \cup SeqsUpTo([email : EventIds \ {Acct_b}], MaxAliased)

\* A roster of customers and staff under one username, for the counts
CountRosterFrames ==
    DistinctOn(SeqsUpTo([account : {Acct_a, Acct_b, Acct_staff}, username : {Name_Al}],
                        MaxRoster), "account")

\* A few events, for the rosters
FewUsageFrames == SeqsUpTo([account : EventIds, usage_type : {"transcript"}], MaxFewEvents)

FewAskAIFrames == SeqsUpTo([account : EventIds \ {Acct_b}], MaxFewEvents)

\* 2023-11-14 and the day after
FirstDay == <<19675>>
NextDay == <<19676>>

\* The last second of FirstDay, in seconds after the epoch
EndSec == FirstDay[1] * SecondsPerDay + SecondsPerDay - 1

SecondsAt(n) == [num |-> <<n \div 1000, n % 1000>>, parsed |-> NA]
MillisAt(n, ms) == [num |-> <<n, ms>>, parsed |-> NA]
IsoAt(n, us) == [num |-> NA, parsed |-> <<n \div 1000, n % 1000, us>>]
Junk == [num |-> NA, parsed |-> NA]
\* "20231114": a number to pd.to_numeric, a date to pd.to_datetime
CompactDate == [num |-> <<20231, 114>>, parsed |-> StartOfDay(FirstDay[1])]

TsValues ==
    { SecondsAt(EndSec), SecondsAt(EndSec + 1),
      [num |-> MsThreshold, parsed |-> NA],
      MillisAt(MsThreshold[1], 1),
      IsoAt(EndSec, 0), IsoAt(EndSec, 1), IsoAt(EndSec - SecondsPerDay + 1, 0),
      Junk, CompactDate }

\* Event tables as read: the timestamp under the first name, under an alias,
\* or under a name that is no alias
TimedFrames ==
    SeqsUpTo([createdAt : TsValues], MaxColumn)
    \cup SeqsUpTo([timestamp : TsValues], MaxColumn)
    \cup SeqsUpTo([when : TsValues], MaxColumn)

\* Every row of df with a timestamp field holding v
Stamped(df, v) == [i \in 1..Len(df) |-> WithColumn(df[i], "createdAt", v)]

\* The tables of a whole run: a roster, and events whose timestamp is in
\* range, unparseable, or under a name that is no alias
RunRosterFrames ==
    DistinctOn(SeqsUpTo([account : {Acct_a, Acct_A_padded, Acct_staff},
                         username : {Name_Al}], MaxRoster), "account")

RunUsageFrames ==
    SeqsUpTo([account : {Acct_A_padded}, usage_type : {"transcript"},
              createdAt : {SecondsAt(EndSec), Junk}], MaxRunRows)
    \cup SeqsUpTo([account : {Acct_A_padded}, usage_type : {"transcript"},
                   when : {SecondsAt(EndSec)}], MaxRunRows)

RunAskAIFrames ==
    SeqsUpTo([account : {Acct_A_padded}, createdAt : {SecondsAt(EndSec), Junk}], MaxRunRows)
    \cup SeqsUpTo([account : {Acct_A_padded}, when : {SecondsAt(EndSec)}], MaxRunRows)

Dates == {FirstDay, NextDay}

Formats == {"excel", "docx"}

\* What a caller can ask for: the CLI takes optional dates and the
\* --no-date-filter switch, the app always has both dates
ArgsOf(s) ==
    IF s = "cli"
    THEN [start_date : Dates \cup {NA}, end_date : Dates \cup {NA},
          format : Formats, no_date_filter : BOOLEAN]
    ELSE [start_date : Dates, end_date : Dates,
          format : Formats, no_date_filter : {FALSE}]

EnvValues == {NA, <<>>, <<107>>}

Environments ==
    [access_key : EnvValues, secret_key : EnvValues, region : EnvValues, today : {NextDay}]

GoodEnvironments == {e \in Environments : ~CredentialsMissing(e)}

\* ------------------------------------------------------------------------
\* The scan of one table, get_data_from_dynamodb, a request at a time
\* ------------------------------------------------------------------------
\* A response of table.scan: a dict that may have Items and may have a
\* LastEvaluatedKey
ItemValues == {"item1", "item2"}

StartKeys == {<<1>>, <<2>>}

Responses ==
    [Items : SeqsUpTo(ItemValues, MaxPageItems), LastEvaluatedKey : StartKeys]
        \cup [Items : SeqsUpTo(ItemValues, MaxPageItems)]
        \cup [LastEvaluatedKey : StartKeys]
        \cup {[ResponseMetadata |-> <<>>]}

\* response.get("Items", [])
ItemsOf(response) == IF "Items" \in DOMAIN response THEN response.Items ELSE <<>>

\* response.get("LastEvaluatedKey")
LastKeyOf(response) ==
    IF "LastEvaluatedKey" \in DOMAIN response THEN response.LastEvaluatedKey ELSE NA

\* Mutant: the start key of the next request is not updated
NextStartKey_Stale(kwargs, last_key) == kwargs

\* scan_kwargs["ExclusiveStartKey"] = last_key
NextStartKey(kwargs, last_key) == last_key

\* No scan is going on
ScanIdle ==
    /\ scan_pc = "idle"
    /\ scan_kwargs = NA
    /\ items = <<>>
    /\ requests = <<>>
    /\ responses = <<>>
    /\ scan_result = <<>>

\* One turn of the loop: table.scan(**scan_kwargs), the items of the response
\* appended, then the loop left when the response has no LastEvaluatedKey and
\* the key kept for the next request when it has one
ScanPage ==
    /\ scan_pc = "loop"
    /\ Len(requests) < MaxPages
    /\ requests' = Append(requests, scan_kwargs)
    /\ \E response \in Responses :
          /\ responses' = Append(responses, response)
          /\ items' = items \o ItemsOf(response)
          /\ IF Falsy(LastKeyOf(response))
             THEN scan_pc' = "after_loop" /\ scan_kwargs' = scan_kwargs
             ELSE /\ scan_pc' = "loop"
                  /\ scan_kwargs' = NextStartKey(scan_kwargs, LastKeyOf(response))
    /\ UNCHANGED <<pc, surface, args, env, trace, accounts_df, usage_df_all, askai_df_all,
                   usage_df, askai_df, start_dt, end_dt, report_df, sort_index, file_data,
                   error, scan_result>>

\* Lines 118-120: an empty DataFrame when nothing was collected, else the
\* DataFrame of the items
ScanReturn ==
    /\ scan_pc = "after_loop"
    /\ scan_result' = IF items = <<>> THEN <<>> ELSE items
    /\ scan_pc' = "returned"
    /\ UNCHANGED <<pc, surface, args, env, trace, accounts_df, usage_df_all, askai_df_all,
                   usage_df, askai_df, start_dt, end_dt, report_df, sort_index, file_data,
                   error, scan_kwargs, items, requests, responses>>

\* ------------------------------------------------------------------------
\* The run, one action per stage
\* ------------------------------------------------------------------------
\* main: resolve_date_range; app.py: lines 61-63 and 75-77
ResolveDates ==
    /\ pc = "start"
    /\ IF surface = "app" /\ args.start_date[1] > args.end_date[1]
       THEN /\ pc' = "stopped"
            /\ UNCHANGED <<start_dt, end_dt>>
       ELSE /\ pc' = "creds"
            /\ start_dt' = resolve_date_range(args.start_date, args.end_date, env.today)[1]
            /\ end_dt' = resolve_date_range(args.start_date, args.end_date, env.today)[2]
    /\ UNCHANGED scanvars
    /\ UNCHANGED <<surface, args, env, trace, accounts_df, usage_df_all, askai_df_all,
                   usage_df, askai_df, report_df, sort_index, file_data, error>>

\* load_env_credentials, as main and the app call it: once, no retry
LoadCredentials ==
    /\ pc = "creds"
    /\ trace' = Append(trace, "load_env_credentials")
    /\ IF CredentialsMissing(env)
       THEN pc' = "failed" /\ error' = "RuntimeError"
       ELSE pc' = "scan_accounts" /\ error' = error
    /\ UNCHANGED scanvars
    /\ UNCHANGED <<surface, args, env, accounts_df, usage_df_all, askai_df_all,
                   usage_df, askai_df, start_dt, end_dt, report_df, sort_index, file_data>>

\* get_data_from_dynamodb(TABLE_ACCOUNTS, ...): the items the scan returns
ScanAccounts ==
    /\ pc = "scan_accounts"
    /\ \E rows \in RunRosterFrames : accounts_df' = rows
    /\ trace' = Append(trace, TABLE_ACCOUNTS)
    /\ pc' = "scan_usage"
    /\ UNCHANGED scanvars
    /\ UNCHANGED <<surface, args, env, usage_df_all, askai_df_all, usage_df, askai_df,
                   start_dt, end_dt, report_df, sort_index, file_data, error>>

\* get_data_from_dynamodb(TABLE_USAGE, ...)
ScanUsage ==
    /\ pc = "scan_usage"
    /\ \E rows \in RunUsageFrames : usage_df_all' = rows
    /\ trace' = Append(trace, TABLE_USAGE)
    /\ pc' = "scan_askai"
    /\ UNCHANGED scanvars
    /\ UNCHANGED <<surface, args, env, accounts_df, askai_df_all, usage_df, askai_df,
                   start_dt, end_dt, report_df, sort_index, file_data, error>>

\* get_data_from_dynamodb(TABLE_ASKAI, ...)
ScanAskAI ==
    /\ pc = "scan_askai"
    /\ \E rows \in RunAskAIFrames : askai_df_all' = rows
    /\ trace' = Append(trace, TABLE_ASKAI)
    /\ pc' = "filter"
    /\ UNCHANGED scanvars
    /\ UNCHANGED <<surface, args, env, accounts_df, usage_df_all, usage_df, askai_df,
                   start_dt, end_dt, report_df, sort_index, file_data, error>>

\* A scan whose retries are exhausted raises the client's error
ScanFails ==
    /\ pc \in {"scan_accounts", "scan_usage", "scan_askai"}
    /\ trace' = Append(trace, CASE pc = "scan_accounts" -> TABLE_ACCOUNTS
                                [] pc = "scan_usage" -> TABLE_USAGE
                                [] OTHER -> TABLE_ASKAI)
    /\ pc' = "failed"
    /\ error' = "ClientError"
    /\ UNCHANGED scanvars
    /\ UNCHANGED <<surface, args, env, accounts_df, usage_df_all, askai_df_all, usage_df,
                   askai_df, start_dt, end_dt, report_df, sort_index, file_data>>

\* main lines 328-333, app.py lines 89-90: both event tables go through the
\* date filter, or through coerce_created_at alone under --no-date-filter
FilterStage ==
    /\ pc = "filter"
    /\ IF args.no_date_filter
       THEN /\ usage_df' = coerce_created_at(usage_df_all)
            /\ askai_df' = coerce_created_at(askai_df_all)
            /\ trace' = Append(trace, "coerce_created_at")
       ELSE /\ usage_df' = filter_by_date(usage_df_all, start_dt, end_dt)
            /\ askai_df' = filter_by_date(askai_df_all, start_dt, end_dt)
            /\ trace' = Append(trace, "filter_by_date")
    /\ pc' = "build"
    /\ UNCHANGED scanvars
    /\ UNCHANGED <<surface, args, env, accounts_df, usage_df_all, askai_df_all,
                   start_dt, end_dt, report_df, sort_index, file_data, error>>

\* build_report_dataframe(accounts_df, usage_df, askai_df)
BuildStage ==
    /\ pc = "build"
    /\ report_df' = build_report_dataframe(accounts_df, usage_df, askai_df)
    /\ sort_index' = sorted_index(accounts_df, usage_df, askai_df)
    /\ trace' = Append(trace, "build_report_dataframe")
    /\ pc' = "export"
    /\ UNCHANGED scanvars
    /\ UNCHANGED <<surface, args, env, accounts_df, usage_df_all, askai_df_all,
                   usage_df, askai_df, start_dt, end_dt, file_data, error>>

\* main lines 353-358, app.py lines 104-119: the exporter of the chosen format
\* is called with the arguments of the call site
ExportStage ==
    /\ pc = "export"
    /\ trace' = Append(trace, IF args.format = "excel" THEN "export_excel" ELSE "export_docx")
    /\ LET argv == ExportArgs(surface, args.format, report_df, start_dt, end_dt)
       IN  IF CallBinds(ExportParams(args.format), argv)
           THEN /\ file_data' = IF args.format = "excel"
                                THEN export_excel(argv[1])
                                ELSE export_docx(argv[1], argv[2], argv[3])
                /\ pc' = "done"
                /\ error' = error
           ELSE /\ file_data' = file_data
                /\ pc' = "failed"
                /\ error' = "TypeError"
    /\ UNCHANGED scanvars
    /\ UNCHANGED <<surface, args, env, accounts_df, usage_df_all, askai_df_all,
                   usage_df, askai_df, start_dt, end_dt, report_df, sort_index>>

\* ------------------------------------------------------------------------
\* Specifications
\* ------------------------------------------------------------------------
\* A whole run, from either surface
Init ==
    /\ pc = "start"
    /\ surface \in {"cli", "app"}
    /\ args \in ArgsOf(surface)
    /\ env \in Environments
    /\ trace = <<>>
    /\ accounts_df = <<>>
    /\ usage_df_all = <<>>
    /\ askai_df_all = <<>>
    /\ usage_df = <<>>
    /\ askai_df = <<>>
    /\ start_dt = NA
    /\ end_dt = NA
    /\ report_df = <<>>
    /\ sort_index = <<>>
    /\ file_data = <<>>
    /\ error = ""
    /\ ScanIdle

Next ==
    \/ ResolveDates
    \/ LoadCredentials
    \/ ScanAccounts
    \/ ScanUsage
    \/ ScanAskAI
    \/ ScanFails
    \/ FilterStage
    \/ BuildStage
    \/ ExportStage

Spec == Init /\ [][Next]_vars

\* The calls a run has issued when it reaches the date stage
TraceBeforeFilter == << "load_env_credentials", TABLE_ACCOUNTS, TABLE_USAGE, TABLE_ASKAI >>

\* The date stage on its own: a run that has read its tables, the usage table
\* holding any timestamp column
InitTime ==
    /\ pc = "filter"
    /\ surface \in {"cli", "app"}
    /\ args \in {a \in ArgsOf(surface) :
                    /\ a.format = "excel"
                    /\ surface = "app" => a.start_date[1] <= a.end_date[1]}
    /\ env \in {e \in GoodEnvironments : e.access_key = e.region}
    /\ trace = TraceBeforeFilter
    /\ accounts_df = <<>>
    /\ usage_df_all \in TimedFrames
    /\ askai_df_all = <<>>
    /\ usage_df = <<>>
    /\ askai_df = <<>>
    /\ start_dt = resolve_date_range(args.start_date, args.end_date, env.today)[1]
    /\ end_dt = resolve_date_range(args.start_date, args.end_date, env.today)[2]
    /\ report_df = <<>>
    /\ sort_index = <<>>
    /\ file_data = <<>>
    /\ error = ""
    /\ ScanIdle

NextTime == FilterStage

SpecTime == InitTime /\ [][NextTime]_vars

\* Report assembly on its own: a run that has filtered its events (all of
\* them in range), its tables drawn from the given sets
InitAssembly(rosters, usages, askais) ==
    /\ pc = "build"
    /\ surface = "app"
    /\ args = [start_date |-> FirstDay, end_date |-> FirstDay,
               format |-> "excel", no_date_filter |-> FALSE]
    /\ env \in {e \in GoodEnvironments : e.access_key = e.region}
    /\ trace = Append(TraceBeforeFilter, "filter_by_date")
    /\ accounts_df \in rosters
    /\ usage_df_all \in {Stamped(f, SecondsAt(EndSec)) : f \in usages}
    /\ askai_df_all \in {Stamped(f, SecondsAt(EndSec)) : f \in askais}
    /\ start_dt = StartOfDay(FirstDay[1])
    /\ end_dt = EndOfDay(FirstDay[1])
    /\ usage_df = filter_by_date(usage_df_all, start_dt, end_dt)
    /\ askai_df = filter_by_date(askai_df_all, start_dt, end_dt)
    /\ report_df = <<>>
    /\ sort_index = <<>>
    /\ file_data = <<>>
    /\ error = ""
    /\ ScanIdle

\* Any roster, a few events
InitBuild == InitAssembly(RosterFrames, FewUsageFrames, FewAskAIFrames)

NextBuild == BuildStage

SpecBuild == InitBuild /\ [][NextBuild]_vars

\* Any events, a roster of customers and staff
InitCount == InitAssembly(CountRosterFrames, UsageFrames, AskAIFrames)

NextCount == BuildStage

SpecCount == InitCount /\ [][NextCount]_vars

\* The scan of the roster table on its own: a run that has its credentials
\* and enters get_data_from_dynamodb; the source answers each request with
\* any response.  Once the loop is left the function runs on to its return.
InitScan ==
    /\ pc = "scan_accounts"
    /\ surface \in {"cli", "app"}
    /\ args \in {a \in ArgsOf(surface) :
                    /\ a.start_date = FirstDay
                    /\ a.end_date = FirstDay
                    /\ a.format = "excel"
                    /\ ~a.no_date_filter}
    /\ env \in GoodEnvironments
    /\ trace = << "load_env_credentials" >>
    /\ accounts_df = <<>>
    /\ usage_df_all = <<>>
    /\ askai_df_all = <<>>
    /\ usage_df = <<>>
    /\ askai_df = <<>>
    /\ start_dt = resolve_date_range(args.start_date, args.end_date, env.today)[1]
    /\ end_dt = resolve_date_range(args.start_date, args.end_date, env.today)[2]
    /\ report_df = <<>>
    /\ sort_index = <<>>
    /\ file_data = <<>>
    /\ error = ""
    /\ scan_pc = "loop"
    /\ scan_kwargs = NA
    /\ items = <<>>
    /\ requests = <<>>
    /\ responses = <<>>
    /\ scan_result = <<>>

NextScan == ScanPage \/ ScanReturn

SpecScan == InitScan /\ [][NextScan]_vars /\ WF_vars(ScanReturn)

\* ------------------------------------------------------------------------
\* Properties
\* ------------------------------------------------------------------------
ReportBuilt == "build_report_dataframe" \in Range(trace)

\* "trimmed, lower-cased"
Trimmed(v) == Lower(Strip(v))

\* The identity a roster record carries: its account field under the first
\* alias the roster has; a roster without any such field carries None
RosterIdentity(i) ==
    LET c == find_first_column(accounts_df, ACCOUNT_ALIASES)
    IN  Trimmed(IF c = NoColumn THEN NoneStr ELSE accounts_df[i][c])

SurvivingIdentities ==
    {a \in {RosterIdentity(i) : i \in 1..Len(accounts_df)} : ~EndsWith(a, InternalSuffix)}

RowsOf(a) == {k \in 1..Len(report_df) : report_df[k]["Account"] = a}

\* C1: for a non-empty roster the report has exactly one row per surviving
\* roster account: every normalized roster identity that does not end with
\* the internal suffix is the Account of exactly one row, so no two rows
\* share an Account, also when two roster records differ only in case or
\* surrounding whitespace.
C1_OneRowPerAccount ==
    (ReportBuilt /\ accounts_df # <<>>) =>
        /\ \A a \in SurvivingIdentities : Cardinality(RowsOf(a)) = 1
        /\ \A k \in 1..Len(report_df) : report_df[k]["Account"] \in SurvivingIdentities

\* The events of df that carry the account a and, when types is given, a
\* usage type among types
EventsOf(df, a) ==
    LET c == find_first_column(df, ACCOUNT_ALIASES)
    IN  {i \in 1..Len(df) : c # NoColumn /\ Trimmed(df[i][c]) = a}

TypedEventsOf(df, a, types) ==
    LET t == find_first_column(df, USAGE_TYPE_ALIASES)
    IN  {i \in EventsOf(df, a) : t # NoColumn /\ df[i][t] \in types}

\* C2: in every report row each metric column is the number of usage events
\* (after the date stage) whose trimmed, lower-cased account is the row's
\* Account and whose usage type is one the metric accepts, and AskAI Questions
\* is the number of ask-AI events of that account; each is a natural number,
\* 0 when there is no such event, and always 0 for a metric that accepts no
\* usage type.
C2_MetricsCountEvents ==
    ReportBuilt =>
        \A k \in 1..Len(report_df) :
            /\ \A m \in 1..Len(METRICS_USAGE_TYPE_MAP) :
                  LET v == report_df[k][METRICS_USAGE_TYPE_MAP[m].name]
                      types == METRICS_USAGE_TYPE_MAP[m].types
                  IN  /\ v \in Nat
                      /\ v = Cardinality(TypedEventsOf(usage_df, report_df[k]["Account"], types))
                      /\ types = {} => v = 0
            /\ report_df[k]["AskAI Questions"] \in Nat
            /\ report_df[k]["AskAI Questions"]
                 = Cardinality(EventsOf(askai_df, report_df[k]["Account"]))

\* C2 witness: a row that counts a transcript and an ask-AI question, while the
\* usage table also holds an event that no metric of that row counts
C2_Witness ==
    /\ ReportBuilt
    /\ \E k \in 1..Len(report_df) :
          /\ report_df[k]["Generated Transcripts"] >= 1
          /\ report_df[k]["AskAI Questions"] >= 1
          /\ report_df[k]["Regenerated Notes"] = 0
          /\ Len(usage_df) = 2
          /\ report_df[k]["Generated Transcripts"] = 1

\* C3: no report row has an Account that, trimmed and lower-cased, ends with
\* "@thinkcol.com", however many events the account has.
C3_NoInternalAccount ==
    \A k \in 1..Len(report_df) :
        ~EndsWith(Trimmed(report_df[k]["Account"]), InternalSuffix)

\* C3 witness: the roster holds "Admin@ThinkCol.com" next to a customer, the
\* staff account has usage and ask-AI events, and the report is built
C3_Witness ==
    /\ ReportBuilt
    /\ Len(report_df) = 1
    /\ Len(accounts_df) = 2
    /\ "account" \in Columns(accounts_df)
    /\ \E i \in 1..Len(accounts_df) : accounts_df[i]["account"] = Acct_staff
    /\ EventsOf(usage_df, Trimmed(Acct_staff)) # {}
    /\ EventsOf(askai_df, Trimmed(Acct_staff)) # {}

\* The events of df whose account is the identity of some roster record
RosterEvents(df) ==
    LET c == find_first_column(df, ACCOUNT_ALIASES)
        ids == {RosterIdentity(i) : i \in 1..Len(accounts_df)}
    IN  IF c = NoColumn THEN df
        ELSE SelectSeq(df, LAMBDA r : Trimmed(r[c]) \in ids)

\* C4: the report is driven by the roster: every row's Account is the
\* normalized identity of a roster record, so an event of an account that is
\* on no roster record gets no row; such events add to no count (the report
\* is the one built from the roster's events alone); an empty roster gives
\* zero rows.
C4_RosterDriven ==
    ReportBuilt =>
        /\ \A k \in 1..Len(report_df) :
              report_df[k]["Account"] \in {RosterIdentity(i) : i \in 1..Len(accounts_df)}
        /\ report_df = build_report_dataframe(accounts_df, RosterEvents(usage_df),
                                              RosterEvents(askai_df))
        /\ accounts_df = <<>> => report_df = <<>>

\* C4 witness: a report with a row, built while a usage event and an ask-AI
\* event belong to accounts that are on no roster record
C4_Witness ==
    /\ ReportBuilt
    /\ report_df # <<>>
    /\ Len(RosterEvents(usage_df)) < Len(usage_df)
    /\ Len(RosterEvents(askai_df)) < Len(askai_df)

\* ------------------------------------------------------------------------
\* Timestamps and the date window
\* ------------------------------------------------------------------------
\* The raw timestamp column of the usage table as read, <<>> when the table
\* has no column under a timestamp alias
RawColumn ==
    LET c == find_first_column(usage_df_all, CREATED_AT_ALIASES)
    IN  IF c = NoColumn THEN <<>> ELSE [i \in 1..Len(usage_df_all) |-> usage_df_all[i][c]]

NumericRows == {i \in 1..Len(RawColumn) : RawColumn[i].num # NA}

\* The largest numeric value of the column exceeds 1e12
MaxExceedsThreshold ==
    \E i \in NumericRows : RawColumn[i].num[1] > 1000000000
                           \/ (RawColumn[i].num[1] = 1000000000 /\ RawColumn[i].num[2] > 0)

Coerced == RawColumn # <<>> /\ pc = "build" /\ args.no_date_filter

\* C5: coerce_created_at settles the encoding once for the column.  When
\* strictly more than half of the values are numeric, every numeric value is
\* read in one unit, milliseconds if the column maximum exceeds 1e12 and
\* seconds if it is at most 1e12, and every value that is not numeric becomes
\* null, whatever a string parse would have made of it; when half or fewer
\* are numeric, every value is what the date/time string parse makes of it,
\* null when it cannot be parsed.
C5_OneEncodingPerColumn ==
    Coerced =>
        /\ Len(usage_df) = Len(RawColumn)
        /\ \A i \in 1..Len(RawColumn) :
              LET t == usage_df[i]["createdAt_dt"]
              IN  IF 2 * Cardinality(NumericRows) > Len(RawColumn)
                  THEN IF i \notin NumericRows THEN t = NA
                       ELSE IF MaxExceedsThreshold
                            THEN t = FromEpochMillis(RawColumn[i].num)
                            ELSE t = FromEpochSeconds(RawColumn[i].num)
                  ELSE t = RawColumn[i].parsed

\* C5 witness: a column of three values, two numeric with maximum exactly
\* 1e12 and read as seconds, the third a parseable date string left null
C5_Witness ==
    /\ Coerced
    /\ Len(RawColumn) = 3
    /\ Cardinality(NumericRows) = 2
    /\ \E i \in NumericRows : RawColumn[i].num = MsThreshold
    /\ ~MaxExceedsThreshold
    /\ \E i \in NumericRows : usage_df[i]["createdAt_dt"] = InstantOfSeconds(EndSec)
    /\ \E i \in 1..3 : RawColumn[i].parsed # NA /\ usage_df[i]["createdAt_dt"] = NA

\* The usage table with its instants, as the filter sees it
Normalized == coerce_created_at(usage_df_all)

Filtered == pc = "build" /\ ~args.no_date_filter

\* The end date of the run: the one given, else today
EndDate == IF args.end_date # NA THEN args.end_date ELSE env.today

\* t lies in [start_dt, end_dt]
Within(t) ==
    /\ t # NA
    /\ \/ start_dt[1] < t[1]
       \/ start_dt[1] = t[1] /\ start_dt[2] < t[2]
       \/ start_dt[1] = t[1] /\ start_dt[2] = t[2] /\ start_dt[3] <= t[3]
    /\ \/ t[1] < end_dt[1]
       \/ t[1] = end_dt[1] /\ t[2] < end_dt[2]
       \/ t[1] = end_dt[1] /\ t[2] = end_dt[2] /\ t[3] <= end_dt[3]

\* C6: end is 23:59:59 of the end date, and filter_by_date returns exactly
\* the rows whose instant t has start <= t <= end, in their order: a row
\* exactly at end or exactly at start is kept (the window being non-empty,
\* start <= end), a row one microsecond or one second after end is dropped,
\* and so is every row with a null instant.
C6_InclusiveWindow ==
    Filtered =>
        /\ end_dt = <<(EndDate[1] * 86400 + 86399) \div 1000,
                      (EndDate[1] * 86400 + 86399) % 1000, 0>>
        /\ usage_df = SelectSeq(Normalized,
                                LAMBDA r : "createdAt_dt" \in DOMAIN r /\ Within(r["createdAt_dt"]))
        /\ \A i \in 1..Len(Normalized) :
              "createdAt_dt" \in DOMAIN Normalized[i] =>
                LET t == Normalized[i]["createdAt_dt"]
                    kept == \E k \in 1..Len(usage_df) : usage_df[k] = Normalized[i]
                IN  /\ t = end_dt /\ Within(start_dt) => kept
                    /\ t = start_dt /\ Within(start_dt) => kept
                    /\ t = <<end_dt[1], end_dt[2], 1>> => ~kept
                    /\ t = InstantOfSeconds(end_dt[1] * 1000 + end_dt[2] + 1) => ~kept
                    /\ t = NA => ~kept

\* C6 witness: three rows, one exactly at end, one a microsecond later and
\* one with a null instant; only the first is returned
C6_Witness ==
    /\ Filtered
    /\ Len(usage_df_all) = 3
    /\ Len(usage_df) = 1
    /\ usage_df[1]["createdAt_dt"] = end_dt
    /\ \E i \in 1..3 : Normalized[i]["createdAt_dt"] = <<end_dt[1], end_dt[2], 1>>
    /\ \E i \in 1..3 : Normalized[i]["createdAt_dt"] = NA

\* ------------------------------------------------------------------------
\* Row order
\* ------------------------------------------------------------------------
\* r1 may stand before r2: Username ascending with nulls after all others,
\* then Account ascending
InOrder(r1, r2) ==
    LET u1 == r1["Username"]
        u2 == r2["Username"]
        a1 == r1["Account"]
        a2 == r2["Account"]
    IN  \/ u1 # NA /\ u2 = NA
        \/ u1 # NA /\ u2 # NA /\ StrLess(u1, u2)
        \/ u1 = u2 /\ (a1 = a2 \/ StrLess(a1, a2))

SameKeys(r1, r2) == r1["Username"] = r2["Username"] /\ r1["Account"] = r2["Account"]

NoUsernameField == find_first_column(accounts_df, USERNAME_ALIASES) = NoColumn

\* C7: the rows are ordered by Username ascending with null usernames after
\* all others, then by Account ascending, and rows equal on both keys keep
\* their roster order; when the roster has no username field, Username is
\* null in every row and the rows are ordered by Account ascending.
C7_SortedStable ==
    ReportBuilt =>
        /\ Len(sort_index) = Len(report_df)
        /\ \A k, l \in 1..Len(report_df) :
              k < l =>
                /\ InOrder(report_df[k], report_df[l])
                /\ SameKeys(report_df[k], report_df[l]) => sort_index[k] < sort_index[l]
        /\ NoUsernameField =>
              \A k, l \in 1..Len(report_df) :
                /\ report_df[k]["Username"] = NA
                /\ k < l => ~StrLess(report_df[l]["Account"], report_df[k]["Account"])

\* C7 witness: the sort moved a row with a username before a row without one
C7_Witness ==
    /\ ReportBuilt
    /\ Len(report_df) = 2
    /\ sort_index = <<2, 1>>
    /\ report_df[1]["Username"] # NA
    /\ report_df[2]["Username"] = NA
    /\ StrLess(report_df[2]["Account"], report_df[1]["Account"])

\* ------------------------------------------------------------------------
\* The run as a whole
\* ------------------------------------------------------------------------
Tables == {TABLE_ACCOUNTS, TABLE_USAGE, TABLE_ASKAI}

ReadsIssued == {i \in 1..Len(trace) : trace[i] \in Tables}

\* The run has its credentials and its three reads have completed
ReadsCompleted == Cardinality(ReadsIssued) = 3 /\ error # "ClientError"

Ended == pc \in {"done", "failed"}

\* C8: a run that has its credentials and completes the three reads ends,
\* from either surface and in either format, with a buffer in the chosen
\* format handed over and no error.
C8_RunEndsWithBuffer ==
    (ReadsCompleted /\ Ended) =>
        /\ pc = "done"
        /\ error = ""
        /\ file_data # <<>>
        /\ file_data[1] = (IF args.format = "excel" THEN "xlsx" ELSE "docx")

\* Some connection parameter is absent or empty
ParameterAbsent ==
    \E v \in {env.access_key, env.secret_key, env.region} : v = NA \/ v = <<>>

CredentialLoads == {i \in 1..Len(trace) : trace[i] = "load_env_credentials"}

\* C9: when a connection parameter is absent or empty the run fails at the
\* credential step with the configuration error: no read of any table is
\* ever issued, the credentials are loaded at most once and the run has
\* failed as soon as they were, and neither a report nor a buffer is made.
C9_MissingCredentialsFatal ==
    ParameterAbsent =>
        /\ ReadsIssued = {}
        /\ Cardinality(CredentialLoads) <= 1
        /\ CredentialLoads # {} => (pc = "failed" /\ error = "RuntimeError")
        /\ ~ReportBuilt
        /\ file_data = <<>>
        /\ pc \notin {"scan_accounts", "scan_usage", "scan_askai", "filter", "build",
                      "export", "done"}

\* C9 witness: the keys are set, the region is the empty string, and the run
\* has failed at the credential step
C9_Witness ==
    /\ env.access_key = <<107>>
    /\ env.secret_key = <<107>>
    /\ env.region = <<>>
    /\ pc = "failed"
    /\ trace = << "load_env_credentials" >>

\* df is not empty and none of its rows gets an instant: it has no column
\* under a timestamp alias, or every timestamp coerces to null
NoInstants(df) ==
    /\ df # <<>>
    /\ LET d == coerce_created_at(df)
       IN  \A i \in 1..Len(d) : "createdAt_dt" \notin DOMAIN d[i] \/ d[i]["createdAt_dt"] = NA

AllMetricsZero(r) == \A c \in Range(MetricColumns) : c \in DOMAIN r /\ r[c] = 0

DateFiltered == "filter_by_date" \in Range(trace)

\* C10: an event table without a recognizable timestamp field, or whose
\* timestamps all coerce to null, does not abort the run: filter_by_date
\* returns the empty collection, and the report built on it has one row per
\* surviving roster account, every metric column present and 0.
C10_DegradesToZero ==
    /\ (DateFiltered /\ NoInstants(usage_df_all)) => usage_df = <<>>
    /\ (DateFiltered /\ NoInstants(askai_df_all)) => askai_df = <<>>
    /\ (DateFiltered /\ NoInstants(usage_df_all) /\ NoInstants(askai_df_all) /\ ReportBuilt) =>
          /\ \A a \in SurvivingIdentities : Cardinality(RowsOf(a)) = 1
          /\ \A k \in 1..Len(report_df) :
                /\ report_df[k]["Account"] \in SurvivingIdentities
                /\ AllMetricsZero(report_df[k])

\* The items of the responses, page after page
RECURSIVE PagesInOrder(_)
PagesInOrder(rs) == IF rs = <<>> THEN <<>> ELSE ItemsOf(Head(rs)) \o PagesInOrder(Tail(rs))

HasToken(response) == "LastEvaluatedKey" \in DOMAIN response

TokenlessReceived == responses # <<>> /\ ~HasToken(responses[Len(responses)])

\* C11: the scan sends its requests one after another, the first without a
\* start key and each later one with the continuation token of the response
\* before it; every response but the last received carries a token, and the
\* loop is left exactly when a response without a token has come in, after
\* which no request is issued; the scan then runs to its return, and what it
\* returns is the items of every page received, each once and in page order
\* (empty when every page was empty).
C11_ScanFollowsTokens ==
    /\ [](/\ Len(requests) = Len(responses)
          /\ requests # <<>> => requests[1] = NA
          /\ \A n \in 1..(Len(responses) - 1) :
                /\ HasToken(responses[n])
                /\ requests[n + 1] = responses[n].LastEvaluatedKey
                /\ requests[n + 1] # NA
          /\ scan_pc \in {"after_loop", "returned"} <=> TokenlessReceived
          /\ items = PagesInOrder(responses)
          /\ scan_pc = "returned" => scan_result = PagesInOrder(responses))
    /\ [][TokenlessReceived => requests' = requests /\ responses' = responses]_vars
    /\ (TokenlessReceived ~> scan_pc = "returned")

\* A scan of three pages, each with an item, that has returned
C11_Witness ==
    /\ scan_pc = "returned"
    /\ Len(responses) = 3
    /\ \A n \in 1..3 : ItemsOf(responses[n]) # <<>>
    /\ requests[2] # requests[3]
    /\ scan_result = ItemsOf(responses[1]) \o ItemsOf(responses[2]) \o ItemsOf(responses[3])

====
